---- MODULE Spec2Model ----
\* Model of src/app.py: the Bedrock agent comparison page.
\*
\* Text (str) is a sequence of Unicode code points, bytes are sequences of
\* numbers 0..255, so that decoding, concatenation and the substring test
\* are computed as Python computes them.  Widget values that the code only
\* compares with the empty string and uses as dictionary keys (name, agent id,
\* alias id, session id, prompt) are TLA+ strings.  The 'timestamp' field of a
\* result (wall-clock time) is not modelled.
EXTENDS Integers, Sequences, FiniteSets, TLC

VARIABLES
    responses,      \* st.session_state.responses: name -> result
    models_config,  \* the list built from the sidebar, while a script run uses it
    prompt,         \* the text area's value, while a script run uses it
    futures,        \* future_to_config, in submission order
    pc,             \* where the script run stands: idle, collecting, display, off
    view,           \* what the last script run rendered: none, validation_error, results
    remote,         \* a single invoke_agent call: what the remote service does
    result,         \* a single invoke_agent call: the value returned
    calls,          \* a single invoke_agent call: client.invoke_agent calls made
    ipc             \* a single invoke_agent call: off, call, returned

vars == <<responses, models_config, prompt, futures, pc, view, remote, result, calls, ipc>>

orchestration_vars == <<responses, models_config, prompt, futures, pc, view>>

invocation_vars == <<remote, result, calls, ipc>>

-----------------------------------------------------------------------------
\* Program constants.

\* "stopSequences"
MARKER == <<115, 116, 111, 112, 83, 101, 113, 117, 101, 110, 99, 101, 115>>

\* "No response received"
NO_RESPONSE ==
  <<78, 111, 32, 114, 101, 115, 112, 111, 110, 115, 101, 32, 114, 101, 99, 101,
    105, 118, 101, 100>>

\* "\n\n<U+1F4A1> Solution: This model doesn't support stop sequences. ..." up to
\* "4. Save and create a new version/alias"
HINT ==
  <<10, 10, 128161, 32, 83, 111, 108, 117, 116, 105, 111, 110, 58, 32, 84, 104,
    105, 115, 32, 109, 111, 100, 101, 108, 32, 100, 111, 101, 115, 110, 39, 116,
    32, 115, 117, 112, 112, 111, 114, 116, 32, 115, 116, 111, 112, 32, 115, 101,
    113, 117, 101, 110, 99, 101, 115, 46, 32, 89, 111, 117, 32, 110, 101, 101,
    100, 32, 116, 111, 32, 117, 112, 100, 97, 116, 101, 32, 121, 111, 117, 114,
    32, 66, 101, 100, 114, 111, 99, 107, 32, 97, 103, 101, 110, 116, 32, 99,
    111, 110, 102, 105, 103, 117, 114, 97, 116, 105, 111, 110, 58, 10, 49, 46,
    32, 71, 111, 32, 116, 111, 32, 65, 87, 83, 32, 67, 111, 110, 115, 111,
    108, 101, 32, 8594, 32, 66, 101, 100, 114, 111, 99, 107, 32, 8594, 32, 65,
    103, 101, 110, 116, 115, 10, 50, 46, 32, 83, 101, 108, 101, 99, 116, 32,
    121, 111, 117, 114, 32, 97, 103, 101, 110, 116, 32, 97, 110, 100, 32, 101,
    100, 105, 116, 32, 105, 116, 10, 51, 46, 32, 73, 110, 32, 116, 104, 101,
    32, 109, 111, 100, 101, 108, 32, 115, 101, 116, 116, 105, 110, 103, 115, 44,
    32, 114, 101, 109, 111, 118, 101, 32, 97, 110, 121, 32, 115, 116, 111, 112,
    32, 115, 101, 113, 117, 101, 110, 99, 101, 115, 32, 102, 114, 111, 109, 32,
    116, 104, 101, 32, 73, 110, 102, 101, 114, 101, 110, 99, 101, 32, 67, 111,
    110, 102, 105, 103, 117, 114, 97, 116, 105, 111, 110, 10, 52, 46, 32, 83,
    97, 118, 101, 32, 97, 110, 100, 32, 99, 114, 101, 97, 116, 101, 32, 97,
    32, 110, 101, 119, 32, 118, 101, 114, 115, 105, 111, 110, 47, 97, 108, 105,
    97, 115>>

\* st.number_input(min_value=2, max_value=4)
MinModels == 2

MaxModels == 4

\* Bounds of the model.
\* Fields of the sidebar form that differ from a completely filled-in form.
MaxDeviations == 1

\* Events of one completion stream.
MaxEvents == 3

\* Fragments an exception message is made of.
MaxParts == 3

-----------------------------------------------------------------------------
\* invoke_agent

\* Python's  m in s  on str.
Contains(s, m) ==
    \E i \in 1..(Len(s) - Len(m) + 1) : SubSeq(s, i, i + Len(m) - 1) = m

\* bytes.decode('utf-8'), strict, for one- and two-byte sequences (the model's
\* bytes are all below 224).  ok = FALSE stands for UnicodeDecodeError.
RECURSIVE utf8_decode(_)
utf8_decode(b) ==
    IF b = <<>> THEN [ok |-> TRUE, text |-> <<>>]
    ELSE IF b[1] < 128
    THEN LET r == utf8_decode(Tail(b))
         IN  [ok |-> r.ok, text |-> <<b[1]>> \o r.text]
    ELSE IF b[1] >= 194 /\ b[1] <= 223 /\ Len(b) >= 2 /\ b[2] >= 128 /\ b[2] <= 191
    THEN LET r == utf8_decode(SubSeq(b, 3, Len(b)))
         IN  [ok |-> r.ok, text |-> <<(b[1] - 192) * 64 + (b[2] - 128)>> \o r.text]
    ELSE [ok |-> FALSE, text |-> <<>>]

\* str(UnicodeDecodeError): "'utf-8' codec can't decode ..." (its head)
DECODE_ERROR ==
  <<39, 117, 116, 102, 45, 56, 39, 32, 99, 111, 100, 101, 99, 32, 99, 97, 110,
    39, 116, 32, 100, 101, 99, 111, 100, 101>>

\* A faulty variant of read_completion: a chunk is put in front of the text read so far.
RECURSIVE read_completion_prepending(_, _)
read_completion_prepending(events, output_text) ==
    IF events = <<>> THEN [raised |-> FALSE, output_text |-> output_text]
    ELSE LET event == Head(events)
         IN  IF event.chunk /\ event.has_bytes
             THEN LET d == utf8_decode(event.bytes)
                  IN  IF d.ok
                      THEN read_completion_prepending(Tail(events), d.text \o output_text)
                      ELSE [raised |-> TRUE, output_text |-> output_text]
             ELSE read_completion_prepending(Tail(events), output_text)

\* for event in completion: ... output_text += chunk_data['bytes'].decode('utf-8')
RECURSIVE read_completion(_, _)
read_completion(events, output_text) ==
    IF events = <<>> THEN [raised |-> FALSE, output_text |-> output_text]
    ELSE LET event == Head(events)
         IN  IF event.chunk /\ event.has_bytes
             THEN LET d == utf8_decode(event.bytes)
                  IN  IF d.ok
                      THEN read_completion(Tail(events), output_text \o d.text)
                      ELSE [raised |-> TRUE, output_text |-> output_text]
             ELSE read_completion(Tail(events), output_text)

\* A faulty variant of response_text: the text is returned as read, empty or not.
response_text_as_read(output_text) == output_text

\* output_text if output_text else "No response received"
response_text(output_text) ==
    IF output_text # <<>> THEN output_text ELSE NO_RESPONSE

\* A faulty variant of error_message: the hint is added to every message.
error_message_always_hinted(error_msg) == error_msg \o HINT

\* error_msg = str(e); if 'stopSequences' in error_msg: error_msg += "..."
error_message(error_msg) ==
    IF Contains(error_msg, MARKER) THEN error_msg \o HINT ELSE error_msg

\* The dictionary of the except branch.
failure(error_msg, model_name) ==
    [success |-> FALSE, error |-> error_msg, model |-> model_name]

\* The call of invoke_agent whose remote side behaves as rem:
\*   [kind |-> "raise", msg]                         the client call raises
\*   [kind |-> "response", has_completion, completion]   it returns a response
invoke_agent(agent_id, agent_alias_id, session_id, prompt_text, model_name, region_name, rem) ==
    IF rem.kind = "raise"
    THEN failure(error_message(rem.msg), model_name)
    ELSE LET read == IF rem.has_completion
                     THEN read_completion(rem.completion, <<>>)
                     ELSE [raised |-> FALSE, output_text |-> <<>>]
         IN  IF read.raised
             THEN failure(error_message(DECODE_ERROR), model_name)
             ELSE [success |-> TRUE,
                   response |-> response_text(read.output_text),
                   model |-> model_name]

-----------------------------------------------------------------------------
\* The page: sidebar form, buttons, fan-out and collection.

\* aws_region, the select box at its default
REGION == "us-west-2"

\* value=f"Model {i+1}"
ModelNames == <<"Model 1", "Model 2", "Model 3", "Model 4">>

\* Agent IDs typed by the user
AgentIds == <<"AGENT1", "AGENT2", "AGENT3", "AGENT4">>

\* value=f"session-{i}"
SessionIds == <<"session-0", "session-1", "session-2", "session-3">>

\* The form of num_models expanders, every field filled in.
FilledForm(n) ==
    [i \in 1..n |-> [name |-> ModelNames[i],
                     agent_id |-> AgentIds[i],
                     agent_alias_id |-> "TSTALIASID",
                     session_id |-> SessionIds[i]]]

\* The forms one edit of a text input away from form: a name retyped (to the
\* first expander's default name, or blanked), or an id blanked.
Edited(form) ==
    UNION { {[form EXCEPT ![i].name = v] :
                v \in {ModelNames[1], ""}}
            \cup {[form EXCEPT ![i].agent_id = ""],
                  [form EXCEPT ![i].agent_alias_id = ""],
                  [form EXCEPT ![i].session_id = ""]}
          : i \in DOMAIN form }

RECURSIVE FormsWithin(_, _)
FormsWithin(n, k) ==
    IF k = 0 THEN {FilledForm(n)}
    ELSE LET fewer == FormsWithin(n, k - 1)
         IN  fewer \cup UNION {Edited(f) : f \in fewer}

\* models_config as the sidebar loop can build it.
Forms == UNION {FormsWithin(n, MaxDeviations) : n \in MinModels..MaxModels}

\* The text area: empty, or a question.
Prompts == {"", "hello"}

\* What the remote side of one worker's call can do during a comparison run:
\* stream "Hel", "lo!"; raise "stopSequences not supported"; or an exception
\* ("boom") that leaves invoke_agent and is held by the future.
RunRemotes ==
    { [kind |-> "response", has_completion |-> TRUE,
       completion |-> << [chunk |-> TRUE, has_bytes |-> TRUE, bytes |-> <<72, 101, 108>>],
                         [chunk |-> TRUE, has_bytes |-> TRUE, bytes |-> <<108, 111, 33>>] >>],
      [kind |-> "raise",
       msg |-> <<115, 116, 111, 112, 83, 101, 113, 117, 101, 110, 99, 101, 115, 32, 110, 111,
                 116, 32, 115, 117, 112, 112, 111, 114, 116, 101, 100>>],
      [kind |-> "fault", msg |-> <<98, 111, 111, 109>>] }

NoRemote == [kind |-> "none"]

NoResult == [pending |-> TRUE]

\* A faulty variant of all_agent_ids: one configured Agent ID is enough.
any_agent_id(configs) == \E i \in DOMAIN configs : configs[i].agent_id # ""

\* all(config['agent_id'] for config in models_config)
all_agent_ids(configs) == \A i \in DOMAIN configs : configs[i].agent_id # ""

\* A faulty variant of reset_responses: the earlier entries are kept.
keep_responses(old) == old

\* st.session_state.responses = {}
reset_responses(old) == <<>>

\* st.session_state.responses[name] = value
store(mapping, name, value) ==
    [k \in (DOMAIN mapping) \cup {name} |-> IF k = name THEN value ELSE mapping[k]]

\* executor.submit(invoke_agent, ...): config for config in models_config
submit_all(configs) ==
    [i \in DOMAIN configs |-> [config |-> configs[i],
                               state |-> "running",
                               remote |-> NoRemote,
                               outcome |-> [kind |-> "none"],
                               yielded |-> FALSE]]

\* A faulty variant of fault_result: the fault is recorded as a success.
fault_result_as_success(msg, config) ==
    [success |-> TRUE, response |-> msg, model |-> config.name]

\* The dictionary stored by the except branch of the collection loop.
fault_result(msg, config) ==
    [success |-> FALSE, error |-> msg, model |-> config.name]

\* What the collection loop stores for a finished future.
recorded(future) ==
    IF future.outcome.kind = "value"
    THEN future.outcome.result
    ELSE fault_result(future.outcome.msg, future.config)

\* A faulty variant of exhausted: the loop ends with the first future collected.
exhausted_on_first(futs) == \E i \in DOMAIN futs : futs[i].yielded

\* as_completed has yielded every future.
exhausted(futs) == \A i \in DOMAIN futs : futs[i].yielded

Init ==
    /\ responses = <<>>
    /\ models_config = <<>>
    /\ prompt = ""
    /\ futures = <<>>
    /\ pc = "idle"
    /\ view = "none"
    /\ remote = NoRemote
    /\ result = NoResult
    /\ calls = 0
    /\ ipc = "off"

\* clear_button: the mapping is emptied and the script reruns with no button pressed.
Clear ==
    /\ pc = "idle"
    /\ responses' = reset_responses(responses)
    /\ view' = "none"
    /\ UNCHANGED <<models_config, prompt, futures, pc>>
    /\ UNCHANGED invocation_vars

\* compare_button, with the text area holding p and the sidebar holding configs.
Compare(p, configs) ==
    /\ pc = "idle"
    /\ IF p = ""
       THEN /\ view' = "none"
            /\ UNCHANGED <<responses, models_config, prompt, futures, pc>>
       ELSE IF ~ all_agent_ids(configs)
       THEN /\ view' = "validation_error"
            /\ UNCHANGED <<responses, models_config, prompt, futures, pc>>
       ELSE /\ responses' = reset_responses(responses)
            /\ models_config' = configs
            /\ prompt' = p
            /\ futures' = submit_all(configs)
            /\ pc' = "collecting"
            /\ view' = "none"
    /\ UNCHANGED invocation_vars

\* A pool thread runs invoke_agent for future i; rem is what the remote side does.
Worker(i, rem) ==
    /\ pc = "collecting"
    /\ futures[i].state = "running"
    /\ LET config == futures[i].config
           outcome ==
               IF rem.kind = "fault"
               THEN [kind |-> "exception", msg |-> rem.msg]
               ELSE [kind |-> "value",
                     result |-> invoke_agent(config.agent_id,
                                             config.agent_alias_id,
                                             config.session_id,
                                             prompt,
                                             config.name,
                                             REGION,
                                             rem)]
       IN  futures' = [futures EXCEPT ![i].state = "finished",
                                      ![i].remote = rem,
                                      ![i].outcome = outcome]
    /\ UNCHANGED <<responses, models_config, prompt, pc, view>>
    /\ UNCHANGED invocation_vars

\* One turn of  for future in as_completed(future_to_config).
Collect(i) ==
    /\ pc = "collecting"
    /\ futures[i].state = "finished"
    /\ ~ futures[i].yielded
    /\ responses' = store(responses, futures[i].config.name, recorded(futures[i]))
    /\ futures' = [futures EXCEPT ![i].yielded = TRUE]
    /\ UNCHANGED <<models_config, prompt, pc, view>>
    /\ UNCHANGED invocation_vars

\* The loop and the executor block end; the columns are about to be rendered.
Join ==
    /\ pc = "collecting"
    /\ exhausted(futures)
    /\ pc' = "display"
    /\ UNCHANGED <<responses, models_config, prompt, futures, view>>
    /\ UNCHANGED invocation_vars

\* The columns and the summary are rendered and the script run ends.
Finish ==
    /\ pc = "display"
    /\ pc' = "idle"
    /\ view' = "results"
    /\ models_config' = <<>>
    /\ prompt' = ""
    /\ futures' = <<>>
    /\ UNCHANGED responses
    /\ UNCHANGED invocation_vars

Next ==
    \/ Clear
    \/ \E p \in Prompts, configs \in Forms : Compare(p, configs)
    \/ \E i \in DOMAIN futures, rem \in RunRemotes : Worker(i, rem)
    \/ \E i \in DOMAIN futures : Collect(i)
    \/ Join
    \/ Finish

Spec == Init /\ [][Next]_vars

-----------------------------------------------------------------------------
\* One call of invoke_agent on its own, over every behaviour of the remote side.

RECURSIVE SeqsUpTo(_, _)
SeqsUpTo(S, n) ==
    IF n = 0 THEN {<<>>}
    ELSE LET shorter == SeqsUpTo(S, n - 1)
         IN  shorter \cup {Append(q, x) : q \in shorter, x \in S}

RECURSIVE Flatten(_)
Flatten(parts) ==
    IF parts = <<>> THEN <<>> ELSE Head(parts) \o Flatten(Tail(parts))

\* chunk_data['bytes']: b"", b"Hi", b"!", the two bytes of U+00E9, and each of
\* the two alone.
PayloadBytes == {<<>>, <<72, 105>>, <<33>>, <<195, 169>>, <<195>>, <<169>>}

\* An event of the stream: a chunk with bytes, a chunk without, or another
\* event (a trace).
StreamEvents ==
    {[chunk |-> TRUE, has_bytes |-> TRUE, bytes |-> b] : b \in PayloadBytes}
    \cup {[chunk |-> TRUE, has_bytes |-> FALSE, bytes |-> <<>>],
          [chunk |-> FALSE, has_bytes |-> FALSE, bytes |-> <<>>]}

\* "stop", "Sequences", "stopSequences", " x", "sequences"
MessageParts ==
    { <<115, 116, 111, 112>>,
      <<83, 101, 113, 117, 101, 110, 99, 101, 115>>,
      <<115, 116, 111, 112, 83, 101, 113, 117, 101, 110, 99, 101, 115>>,
      <<32, 120>>,
      <<115, 101, 113, 117, 101, 110, 99, 101, 115>> }

\* str(e) of the exceptions the client call raises.
Messages == {Flatten(parts) : parts \in SeqsUpTo(MessageParts, MaxParts)}

InvokeRemotes ==
    {[kind |-> "raise", msg |-> m] : m \in Messages}
    \cup {[kind |-> "response", has_completion |-> FALSE, completion |-> <<>>]}
    \cup {[kind |-> "response", has_completion |-> TRUE, completion |-> events] :
             events \in SeqsUpTo(StreamEvents, MaxEvents)}

InitInvoke ==
    /\ responses = <<>>
    /\ models_config = <<>>
    /\ prompt = ""
    /\ futures = <<>>
    /\ pc = "off"
    /\ view = "none"
    /\ remote \in InvokeRemotes
    /\ result = NoResult
    /\ calls = 0
    /\ ipc = "call"

\* invoke_agent runs from its first line to its return: one client call.
Invoke ==
    /\ ipc = "call"
    /\ calls' = calls + 1
    /\ result' = invoke_agent(AgentIds[1], "TSTALIASID", SessionIds[1], "hello",
                              ModelNames[1], REGION, remote)
    /\ ipc' = "returned"
    /\ UNCHANGED remote
    /\ UNCHANGED orchestration_vars

NextInvoke == Invoke

SpecInvoke == InitInvoke /\ [][NextInvoke]_vars

-----------------------------------------------------------------------------
\* Properties of one invoke_agent call (under SpecInvoke).

\* The bytes of every chunk of the stream, in the order of delivery.
RECURSIVE PayloadOf(_)
PayloadOf(events) ==
    IF events = <<>> THEN <<>>
    ELSE (IF Head(events).chunk /\ Head(events).has_bytes
          THEN Head(events).bytes ELSE <<>>) \o PayloadOf(Tail(events))

\* msg is some text, the marker, some text.
HasMarker(msg) ==
    \E i \in 0..Len(msg) :
        /\ i + Len(MARKER) <= Len(msg)
        /\ \A k \in 1..Len(MARKER) : msg[i + k] = MARKER[k]

\* The remote call returned, and its stream carries no content: no stream, no
\* chunk, or chunks of no bytes.
NoContent(rem) ==
    /\ rem.kind = "response"
    /\ (~ rem.has_completion \/ PayloadOf(rem.completion) = <<>>)

\* C7: when the remote call succeeds and its stream yields no content,
\* invoke_agent returns a success result whose response is the placeholder
\* "No response received": never an empty response, never a failure.
C7_NoContentGivesPlaceholder ==
    (ipc = "returned" /\ NoContent(remote)) =>
        /\ result.success
        /\ result.response = NO_RESPONSE
        /\ result.response # <<>>

\* A stream of two chunks of no bytes was answered with the placeholder.
C7_Witness ==
    /\ ipc = "returned"
    /\ remote.kind = "response"
    /\ remote.has_completion
    /\ Len(remote.completion) = 2
    /\ \A k \in 1..2 : remote.completion[k].chunk /\ remote.completion[k].has_bytes
    /\ result.success
    /\ result.response = NO_RESPONSE

\* C8: for every error the remote call raises, the failure result's error is
\* the raw text followed by the remediation hint when the raw text contains
\* "stopSequences", and the raw text itself when it does not; the client was
\* called once (no retry).
C8_ErrorTextAndNoRetry ==
    (ipc = "returned" /\ remote.kind = "raise") =>
        /\ ~ result.success
        /\ HasMarker(remote.msg) => result.error = remote.msg \o HINT
        /\ ~ HasMarker(remote.msg) => result.error = remote.msg
        /\ calls = 1

\* An error whose text has the marker in its middle came back with the hint.
C8_Witness ==
    /\ ipc = "returned"
    /\ remote.kind = "raise"
    /\ HasMarker(remote.msg)
    /\ Len(remote.msg) > Len(MARKER)
    /\ SubSeq(remote.msg, 1, Len(MARKER)) # MARKER
    /\ result.error = remote.msg \o HINT
    /\ calls = 1

-----------------------------------------------------------------------------
\* Properties of the comparison run (under Spec).

\* The names of the configs of the run.
RunNames == {models_config[i].name : i \in DOMAIN models_config}

\* The preconditions of a compare request.
Preconditions(p, configs) ==
    /\ p # ""
    /\ \A i \in DOMAIN configs :
          /\ configs[i].name # ""
          /\ configs[i].agent_id # ""
          /\ configs[i].agent_alias_id # ""
          /\ configs[i].session_id # ""
    /\ \A i, j \in DOMAIN configs : i # j => configs[i].name # configs[j].name

\* The failure of future i's remote call, if it failed.
Failed(future) == future.state = "finished" /\ future.remote.kind \in {"raise", "fault"}

\* C1: once a started run has finished, the result mapping holds exactly one
\* result per config: as many entries as configs, none dropped.
C1_OneResultPerConfig ==
    pc = "display" =>
        /\ Cardinality(DOMAIN responses) = Len(models_config)
        /\ RunNames = DOMAIN responses

\* C2: a compare request that violates a precondition (empty prompt, a config
\* with an empty name, agentId, agentAliasId or sessionId, or two configs of
\* one name) schedules no invocation: futures exist only for a request that
\* meets the preconditions.
C2_InvalidRequestSchedulesNothing ==
    futures # <<>> => Preconditions(prompt, models_config)

\* C3: a batch with a config whose agentId is empty is rejected before any
\* invocation: whenever futures exist, every config of the batch has its
\* agentId, and the rejection leaves no future and no run behind.
C3_MissingAgentIdRejectsBatch ==
    /\ futures # <<>> =>
          /\ Len(futures) = Len(models_config)
          /\ \A i \in DOMAIN futures :
                /\ futures[i].config = models_config[i]
                /\ models_config[i].agent_id # ""
    /\ view = "validation_error" => (futures = <<>> /\ pc = "idle")

\* The page shows the Agent ID error, and nothing was submitted.
C3_Witness ==
    /\ view = "validation_error"
    /\ futures = <<>>
    /\ pc = "idle"

\* C4: the run leaves the collection phase only after every scheduled
\* invocation has reached its outcome and has been collected: no early
\* return on the first completion or the first failure.
C4_FullJoin ==
    pc = "display" =>
        /\ Len(futures) = Len(models_config)
        /\ \A i \in DOMAIN futures :
              futures[i].state = "finished" /\ futures[i].yielded

\* A run of three agents, one failed and one succeeded, has left the loop.
C4_Witness ==
    /\ pc = "display"
    /\ Len(futures) = 3
    /\ Failed(futures[1])
    /\ futures[2].remote.kind = "response"

\* C5: the result recorded for an agent is the outcome of that agent's own
\* invocation, whatever the other agents did and in whatever order they
\* completed; no invocation is left unfinished.
C5_OwnOutcomeRecorded ==
    pc = "display" =>
        \A i \in DOMAIN futures :
            /\ futures[i].state = "finished"
            /\ futures[i].config.name \in DOMAIN responses
            /\ responses[futures[i].config.name] = recorded(futures[i])

\* The step of the collection loop that takes future i.
Collected(i) ==
    /\ pc = "collecting"
    /\ i \in DOMAIN futures
    /\ ~ futures[i].yielded
    /\ futures'[i].yielded

\* C6, as stated: every fault of an invocation is stored for its agent as a
\* failure whose error is the fault's message.
C6_ErrorIsFaultMessage ==
    [][\A i \in 1..MaxModels :
          (Collected(i) /\ Failed(futures[i])) =>
              responses'[futures[i].config.name] =
                  [success |-> FALSE,
                   error |-> futures[i].remote.msg,
                   model |-> futures[i].config.name]]_vars

\* C6, amended: every fault of an invocation is stored for its agent as a
\* failure; its error is the fault's message, followed by the remediation
\* hint when the fault was raised inside invoke_agent and its message
\* contains "stopSequences".  The collection goes on: the step stays in the
\* loop.
C6_FaultBecomesFailure ==
    [][\A i \in 1..MaxModels :
          (Collected(i) /\ Failed(futures[i])) =>
              /\ responses'[futures[i].config.name] =
                    [success |-> FALSE,
                     error |-> IF futures[i].remote.kind = "raise"
                                  /\ HasMarker(futures[i].remote.msg)
                               THEN futures[i].remote.msg \o HINT
                               ELSE futures[i].remote.msg,
                     model |-> futures[i].config.name]
              /\ pc' = "collecting"]_vars

\* A fault held by a future and an error raised in invoke_agent were both
\* stored as failures, and the run has reached its end.
C6_Witness ==
    /\ pc = "display"
    /\ \E i, j \in DOMAIN futures :
          /\ futures[i].remote.kind = "fault"
          /\ futures[j].remote.kind = "raise"
          /\ futures[i].config.name # futures[j].config.name
          /\ ~ responses[futures[i].config.name].success
          /\ responses[futures[i].config.name].error = futures[i].remote.msg
          /\ ~ responses[futures[j].config.name].success
          /\ responses[futures[j].config.name].error = futures[j].remote.msg \o HINT

\* C10: the mapping is replaced, never merged: a clear empties it, a started
\* run empties it before anything is collected, during a run every entry is
\* the result collected from a future of this run, and between runs the
\* entries are those the last run left or none.
C10_ReplacedNeverMerged ==
    /\ [](pc \in {"collecting", "display"} =>
            \A k \in DOMAIN responses :
                \E i \in DOMAIN futures :
                    /\ futures[i].yielded
                    /\ futures[i].config.name = k
                    /\ responses[k] = recorded(futures[i]))
    /\ [][/\ Clear => responses' = <<>>
          /\ (pc = "idle" /\ pc' = "collecting") => responses' = <<>>
          /\ (pc = "idle" /\ pc' = "idle") =>
                (responses' = responses \/ responses' = <<>>)
          /\ (pc = "display" /\ pc' = "idle") => responses' = responses]_vars

\* After a run, a rejected request has left the run's entries in place.
C10_Witness ==
    /\ pc = "idle"
    /\ view = "validation_error"
    /\ Cardinality(DOMAIN responses) = 2

====
